---- MODULE Spec2Model ----
(***************************************************************************)
(* Grid traffic simulation: Simulator (src/app/simulator.py) with its Car  *)
(* and Intersection models (src/app/models.py).                            *)
(*                                                                         *)
(* A position is the tuple <<x, y>>; a car is the record                   *)
(* [id, position, direction]; an intersection is the record                *)
(* [position, light_state, cycle_length, timer].                           *)
(***************************************************************************)
EXTENDS Integers, Sequences, FiniteSets

\* Largest grid_size the general specification constructs.
MaxGrid == 2
\* Largest num_cars the general specification constructs.
MaxCars == 2
\* Largest intersection_cycle the general specification constructs.
MaxCycle == 2
\* Number of update() calls explored from a constructed simulator.
MaxTicks == 4
\* Number of update() calls explored on the reference layout.
RefTicks == 6
\* Number of update() calls explored by the driver that also queries.
OpsTicks == 2

\* The largest grid the constructor is stepped on for the initial layout.
LayoutGrid == 4
\* The default of intersection_cycle in Simulator.__init__.
DefaultCycle == 5

VARIABLES
    grid_size,       \* Simulator.grid_size
    time_step,       \* Simulator.time_step
    cars,            \* Simulator.cars: sequence of Car records, in list order
    intersections,   \* Simulator.intersections: position -> Intersection record
    road_cells,      \* Simulator.road_network.road_cells
    init_cars,       \* history: Simulator.cars as the constructor left it
    prev,            \* history: cars and intersections on entry to the last update()
    config,          \* history: the arguments the constructor was called with
    ctor,            \* how the constructor call ended, or where it is stuck
    result           \* the last call on the simulator, its arguments and return value

vars == <<grid_size, time_step, cars, intersections, road_cells,
          init_cars, prev, config, ctor, result>>

Directions == {"N", "S", "E", "W"}

\* ------------------------------------------------------------------ Car

\* move that also turns the car a quarter to the right.
MoveAndTurn(car) ==
    LET x == car.position[1]
        y == car.position[2]
    IN  CASE car.direction = "N" -> [car EXCEPT !.position = <<x, y - 1>>, !.direction = "E"]
          [] car.direction = "S" -> [car EXCEPT !.position = <<x, y + 1>>, !.direction = "W"]
          [] car.direction = "E" -> [car EXCEPT !.position = <<x + 1, y>>, !.direction = "S"]
          [] car.direction = "W" -> [car EXCEPT !.position = <<x - 1, y>>, !.direction = "N"]
          [] OTHER -> car

\* move with the y axis taken to grow upward.
MoveYUp(car) ==
    LET x == car.position[1]
        y == car.position[2]
    IN  CASE car.direction = "N" -> [car EXCEPT !.position = <<x, y + 1>>]
          [] car.direction = "S" -> [car EXCEPT !.position = <<x, y - 1>>]
          [] car.direction = "E" -> [car EXCEPT !.position = <<x + 1, y>>]
          [] car.direction = "W" -> [car EXCEPT !.position = <<x - 1, y>>]
          [] OTHER -> car

\* Car.move: one cell forward in the current direction, y growing downward.
Move(car) ==
    LET x == car.position[1]
        y == car.position[2]
    IN  CASE car.direction = "N" -> [car EXCEPT !.position = <<x, y - 1>>]
          [] car.direction = "S" -> [car EXCEPT !.position = <<x, y + 1>>]
          [] car.direction = "E" -> [car EXCEPT !.position = <<x + 1, y>>]
          [] car.direction = "W" -> [car EXCEPT !.position = <<x - 1, y>>]
          [] OTHER -> car

\* ------------------------------------------------------------------ Intersection

\* __init__ with the default state EW-green.
NewIntersectionEWGreen(position, cycle_length) ==
    [position     |-> position,
     light_state  |-> [NS |-> "red", EW |-> "green"],
     cycle_length |-> cycle_length,
     timer        |-> 0]

\* Intersection.__init__ with initial_state=None
NewIntersection(position, cycle_length) ==
    [position     |-> position,
     light_state  |-> [NS |-> "green", EW |-> "red"],
     cycle_length |-> cycle_length,
     timer        |-> 0]

\* update_light with the swap leaving the timer where it is.
UpdateLightNoReset(i) ==
    LET t == i.timer + 1
    IN  IF t >= i.cycle_length
        THEN IF i.light_state.NS = "green"
             THEN [i EXCEPT !.light_state = [NS |-> "red", EW |-> "green"],
                            !.timer = t]
             ELSE [i EXCEPT !.light_state = [NS |-> "green", EW |-> "red"],
                            !.timer = t]
        ELSE [i EXCEPT !.timer = t]

\* update_light with the swap writing only the NS entry.
UpdateLightHalfSwap(i) ==
    LET t == i.timer + 1
    IN  IF t >= i.cycle_length
        THEN IF i.light_state.NS = "green"
             THEN [i EXCEPT !.light_state.NS = "red", !.timer = 0]
             ELSE [i EXCEPT !.light_state.NS = "green", !.timer = 0]
        ELSE [i EXCEPT !.timer = t]

\* update_light with the comparison timer > cycle_length.
UpdateLightLate(i) ==
    LET t == i.timer + 1
    IN  IF t > i.cycle_length
        THEN IF i.light_state.NS = "green"
             THEN [i EXCEPT !.light_state = [NS |-> "red", EW |-> "green"],
                            !.timer = 0]
             ELSE [i EXCEPT !.light_state = [NS |-> "green", EW |-> "red"],
                            !.timer = 0]
        ELSE [i EXCEPT !.timer = t]

\* Intersection.update_light
UpdateLight(i) ==
    LET t == i.timer + 1
    IN  IF t >= i.cycle_length
        THEN IF i.light_state.NS = "green"
             THEN [i EXCEPT !.light_state = [NS |-> "red", EW |-> "green"],
                            !.timer = 0]
             ELSE [i EXCEPT !.light_state = [NS |-> "green", EW |-> "red"],
                            !.timer = 0]
        ELSE [i EXCEPT !.timer = t]

\* is_green that never reports red.
IsGreenAlways(i, direction) == TRUE

\* is_green with the two axes exchanged.
IsGreenCrossed(i, direction) ==
    IF direction \in {"N", "S"} THEN i.light_state.EW = "green"
    ELSE IF direction \in {"E", "W"} THEN i.light_state.NS = "green"
    ELSE FALSE

\* Intersection.is_green
IsGreen(i, direction) ==
    IF direction \in {"N", "S"} THEN i.light_state.NS = "green"
    ELSE IF direction \in {"E", "W"} THEN i.light_state.EW = "green"
    ELSE FALSE

\* ------------------------------------------------------------------ Simulator

\* Simulator._get_next_position
GetNextPosition(car) ==
    LET x == car.position[1]
        y == car.position[2]
    IN  CASE car.direction = "N" -> <<x, y - 1>>
          [] car.direction = "S" -> <<x, y + 1>>
          [] car.direction = "E" -> <<x + 1, y>>
          [] car.direction = "W" -> <<x - 1, y>>
          [] OTHER -> <<x, y>>

\* _in_bounds with only the upper limits tested.
InBoundsNoLowerLimit(pos, g) ==
    /\ pos[1] < g
    /\ pos[2] < g

\* _in_bounds with the upper limits inclusive.
InBoundsInclusive(pos, g) ==
    /\ 0 <= pos[1] /\ pos[1] <= g
    /\ 0 <= pos[2] /\ pos[2] <= g

\* Simulator._in_bounds
InBounds(pos, g) ==
    /\ 0 <= pos[1] /\ pos[1] < g
    /\ 0 <= pos[2] /\ pos[2] < g

\* range(0, grid_size, 4): three free cells between two intersections.
LatticeRangeStepFour(g) == {x \in 0..(g - 1) : x % 4 = 0}

\* range(0, grid_size, 3)
LatticeRange(g) == {x \in 0..(g - 1) : x % 3 = 0}

\* The keys of Simulator.intersections after the constructor's first loop.
IntersectionCells(g) == LatticeRange(g) \X LatticeRange(g)

\* The cells random.randint(0, grid_size - 1) can draw.
GridCells(g) == (0..(g - 1)) \X (0..(g - 1))

\* The constructor's first loop: one Intersection per lattice cell.
BuildIntersections(g, cycle) ==
    [p \in IntersectionCells(g) |-> NewIntersection(p, cycle)]

\* The constructor's second loop: every list of n cars the random draws can
\* produce: ids 0..n-1 in order, off the intersections, on distinct cells.
Placements(g, n) ==
    LET free  == GridCells(g) \ IntersectionCells(g)
        draws == {d \in [1..n -> [position : free, direction : Directions]] :
                     \A i, j \in 1..n : i # j => d[i].position # d[j].position}
    IN  {[i \in 1..n |-> [id        |-> i - 1,
                          position  |-> d[i].position,
                          direction |-> d[i].direction]] : d \in draws}

\* The collision test with only the claimed set consulted.
BlockedClaimedOnly(cs, new_positions, next_pos) ==
    next_pos \in new_positions

\* The collision test of update(): the candidate is claimed in this pass, or
\* is the position some car of the list holds right now.
Blocked(cs, new_positions, next_pos) ==
    \/ next_pos \in new_positions
    \/ \E k \in 1..Len(cs) : cs[k].position = next_pos

\* The loop body with the collision test looking only at the claimed set and
\* at the cars before index i.
EvalCarEarlierOnly(st, i, ints, g) ==
    LET car      == st.cars[i]
        next_pos == GetNextPosition(car)
    IN  IF ~InBounds(next_pos, g) THEN st
        ELSE IF next_pos \in DOMAIN ints /\ ~IsGreen(ints[next_pos], car.direction) THEN st
        ELSE IF \/ next_pos \in st.new_positions
                \/ \E k \in 1..(i - 1) : st.cars[k].position = next_pos THEN st
        ELSE LET moved == Move(car)
             IN  [cars          |-> [st.cars EXCEPT ![i] = moved],
                  new_positions |-> st.new_positions \cup {moved.position}]

\* One iteration of the for-loop over self.cars in update(), for the car at
\* list index i: the three `continue` tests, then car.move() and the claim.
EvalCar(st, i, ints, g) ==
    LET car      == st.cars[i]
        next_pos == GetNextPosition(car)
    IN  IF ~InBounds(next_pos, g) THEN st
        ELSE IF next_pos \in DOMAIN ints /\ ~IsGreen(ints[next_pos], car.direction) THEN st
        ELSE IF Blocked(st.cars, st.new_positions, next_pos) THEN st
        ELSE LET moved == Move(car)
             IN  [cars          |-> [st.cars EXCEPT ![i] = moved],
                  new_positions |-> st.new_positions \cup {moved.position}]

\* The for-loop taken over reversed(self.cars).
RECURSIVE MoveCarsDescending(_, _, _, _)
MoveCarsDescending(st, i, ints, g) ==
    IF i > Len(st.cars) THEN st
    ELSE MoveCarsDescending(EvalCar(st, Len(st.cars) - i + 1, ints, g), i + 1, ints, g)

\* The for-loop over self.cars, in list order, from index i on.
RECURSIVE MoveCars(_, _, _, _)
MoveCars(st, i, ints, g) ==
    IF i > Len(st.cars) THEN st
    ELSE MoveCars(EvalCar(st, i, ints, g), i + 1, ints, g)

\* The first loop of update(): every intersection's update_light().
UpdateLights(ints) == [p \in DOMAIN ints |-> UpdateLight(ints[p])]

\* update() with the cars evaluated before the lights are advanced.
UpdateResultStaleLights(cs, ints, g) ==
    [intersections |-> UpdateLights(ints),
     cars          |-> MoveCars([cars |-> cs, new_positions |-> {}], 1, ints, g).cars]

\* The body of update() on the car list cs and the intersections ints of a
\* grid of size g: the lights are advanced first, and the cars are then
\* evaluated against the advanced lights.
UpdateResult(cs, ints, g) ==
    LET advanced == UpdateLights(ints)
    IN  [intersections |-> advanced,
         cars          |-> MoveCars([cars |-> cs, new_positions |-> {}], 1,
                                    advanced, g).cars]

\* Simulator.__init__(grid_size=g, num_cars=n, intersection_cycle=cycle) with
\* cs the car list that the random placement produced.
Construct(g, cycle, n, cs) ==
    /\ grid_size = g
    /\ time_step = 0
    /\ intersections = BuildIntersections(g, cycle)
    /\ cars = cs
    /\ road_cells = {}
    /\ init_cars = cs
    /\ prev = [cars |-> cs, intersections |-> BuildIntersections(g, cycle)]
    /\ config = [grid_size |-> g, num_cars |-> n, intersection_cycle |-> cycle]
    /\ ctor = "returned"
    /\ result = [op |-> "__init__", args |-> <<>>, value |-> "None"]

\* Every simulator the constructor can return within the bounds.
Init ==
    \E g \in 1..MaxGrid, cycle \in 1..MaxCycle, n \in 0..MaxCars :
        /\ n <= Cardinality(GridCells(g) \ IntersectionCells(g))
        /\ \E cs \in Placements(g, n) : Construct(g, cycle, n, cs)

\* update() with the counter advanced twice.
UpdateCountsTwice ==
    LET r == UpdateResult(cars, intersections, grid_size)
    IN  /\ time_step' = time_step + 2
        /\ intersections' = r.intersections
        /\ cars' = r.cars
        /\ prev' = [cars |-> cars, intersections |-> intersections]
        /\ result' = [op |-> "update", args |-> <<>>, value |-> "None"]
        /\ UNCHANGED <<grid_size, road_cells, init_cars, config, ctor>>

\* Simulator.update
Update ==
    LET r == UpdateResult(cars, intersections, grid_size)
    IN  /\ time_step' = time_step + 1
        /\ intersections' = r.intersections
        /\ cars' = r.cars
        /\ prev' = [cars |-> cars, intersections |-> intersections]
        /\ result' = [op |-> "update", args |-> <<>>, value |-> "None"]
        /\ UNCHANGED <<grid_size, road_cells, init_cars, config, ctor>>

\* Simulator.run: update() is called a bounded number of times.
Next == time_step < MaxTicks /\ Update

Spec == Init /\ [][Next]_vars

\* ------------------------------------------------------------------
\* The queries of the simulator.

\* The number of values of range(0, grid_size, 3).
LatticeCount(g) == IF g <= 0 THEN 0 ELSE (g + 2) \div 3

\* The keys of self.intersections in insertion order: x outer, y inner.
IntersectionOrder(g) ==
    LET m == LatticeCount(g)
    IN  [k \in 1..(m * m) |-> <<3 * ((k - 1) \div m), 3 * ((k - 1) % m)>>]

\* get_state() with the NS light reported under both keys.
StateViewNSTwice(t, cs, ints, g) ==
    LET order == IntersectionOrder(g)
    IN  [time_step     |-> t,
         cars          |-> [i \in 1..Len(cs) |->
                               [id        |-> cs[i].id,
                                position  |-> cs[i].position,
                                direction |-> cs[i].direction]],
         intersections |-> [k \in 1..Len(order) |->
                               [position |-> ints[order[k]].position,
                                NS       |-> ints[order[k]].light_state.NS,
                                EW       |-> ints[order[k]].light_state.NS]]]

\* The dict get_state() returns.
StateView(t, cs, ints, g) ==
    LET order == IntersectionOrder(g)
    IN  [time_step     |-> t,
         cars          |-> [i \in 1..Len(cs) |->
                               [id        |-> cs[i].id,
                                position  |-> cs[i].position,
                                direction |-> cs[i].direction]],
         intersections |-> [k \in 1..Len(order) |->
                               [position |-> ints[order[k]].position,
                                NS       |-> ints[order[k]].light_state.NS,
                                EW       |-> ints[order[k]].light_state.EW]]]

\* Simulator.get_state
GetState ==
    /\ result' = [op    |-> "get_state",
                  args  |-> <<>>,
                  value |-> StateView(time_step, cars, intersections, grid_size)]
    /\ UNCHANGED <<grid_size, time_step, cars, intersections, road_cells,
                   init_cars, prev, config, ctor>>

\* RoadNetwork.is_road
IsRoad(roads, pos) == pos \in roads

\* RoadNetwork.get_neighbors: the stub returns the empty list.
GetNeighbors(roads, pos) == <<>>

\* The value of Simulator.find_path: the stub returns the empty list.
FindPathValue(roads, start, goal) == <<>>

\* Simulator.find_path
FindPath(start, goal) ==
    /\ result' = [op    |-> "find_path",
                  args  |-> <<start, goal>>,
                  value |-> FindPathValue(road_cells, start, goal)]
    /\ UNCHANGED <<grid_size, time_step, cars, intersections, road_cells,
                   init_cars, prev, config, ctor>>

\* A driver that steps the simulator and, between the steps, reads its state
\* and asks for the route between two intersections.
NextOps ==
    \/ time_step < OpsTicks /\ Update
    \/ GetState
    \/ \E start, goal \in DOMAIN intersections : FindPath(start, goal)

SpecOps == Init /\ [][NextOps]_vars

\* ------------------------------------------------------------------
\* Route queries on a road network.  The constructor leaves road_cells empty;
\* the layout is the configuration's to fill in.

\* The cells one cardinal step from pos.
Adjacent(pos) ==
    {<<pos[1], pos[2] - 1>>, <<pos[1], pos[2] + 1>>,
     <<pos[1] + 1, pos[2]>>, <<pos[1] - 1, pos[2]>>}

\* The cells of roads within n road steps of the cells of from.
RECURSIVE Within(_, _, _)
Within(roads, from, n) ==
    IF n = 0 THEN from
    ELSE Within(roads,
                from \cup {c \in roads : \E f \in from : c \in Adjacent(f)},
                n - 1)

\* Every cell of roads can be reached from every other over road cells.
Connected(roads) ==
    \A a \in roads : Within(roads, {a}, Cardinality(roads)) = roads

\* The configuration lays out a non-empty connected road network.
LayRoads ==
    /\ road_cells = {}
    /\ \E roads \in SUBSET GridCells(grid_size) :
        /\ roads # {}
        /\ Connected(roads)
        /\ road_cells' = roads
    /\ UNCHANGED <<grid_size, time_step, cars, intersections,
                   init_cars, prev, config, ctor, result>>

\* A simulator without cars, as constructed.
InitPath ==
    \E g \in 1..MaxGrid, cycle \in 1..MaxCycle : Construct(g, cycle, 0, <<>>)

NextPath ==
    \/ LayRoads
    \/ \E start, goal \in GridCells(grid_size) : FindPath(start, goal)

SpecPath == InitPath /\ [][NextPath]_vars

\* ------------------------------------------------------------------
\* The constructor step by step, called with any arguments, valid or not.

\* The constructor after its first loop, before the first car is placed.
InitCtor ==
    \E g \in (-1)..MaxGrid, cycle \in (-1)..MaxCycle, n \in (-1)..MaxCars :
        /\ grid_size = g
        /\ time_step = 0
        /\ intersections = BuildIntersections(g, cycle)
        /\ cars = <<>>
        /\ road_cells = {}
        /\ init_cars = <<>>
        /\ prev = [cars |-> <<>>, intersections |-> BuildIntersections(g, cycle)]
        /\ config = [grid_size |-> g, num_cars |-> n, intersection_cycle |-> cycle]
        /\ ctor = "placing"
        /\ result = [op |-> "__init__", args |-> <<>>, value |-> "None"]

\* One pass of `while True` for the next car: a cell is drawn; a free cell
\* ends the loop and the car is appended, any other cell repeats the loop.
DrawCar ==
    /\ ctor = "placing"
    /\ Len(cars) < config.num_cars
    /\ grid_size >= 1
    /\ \E pos \in GridCells(grid_size), d \in Directions :
          cars' = IF /\ pos \notin DOMAIN intersections
                     /\ \A k \in 1..Len(cars) : cars[k].position # pos
                  THEN Append(cars, [id |-> Len(cars), position |-> pos, direction |-> d])
                  ELSE cars
    /\ UNCHANGED <<grid_size, time_step, intersections, road_cells, init_cars,
                   prev, config, ctor, result>>

\* random.randint(0, grid_size - 1) on an empty range raises ValueError.
DrawRaises ==
    /\ ctor = "placing"
    /\ Len(cars) < config.num_cars
    /\ grid_size <= 0
    /\ ctor' = "ValueError"
    /\ result' = [op |-> "__init__", args |-> <<>>, value |-> "ValueError"]
    /\ UNCHANGED <<grid_size, time_step, cars, intersections, road_cells,
                   init_cars, prev, config>>

\* The for-loop over range(num_cars) is exhausted: the constructor returns.
Return ==
    /\ ctor = "placing"
    /\ Len(cars) >= config.num_cars
    /\ ctor' = "returned"
    /\ init_cars' = cars
    /\ prev' = [cars |-> cars, intersections |-> intersections]
    /\ UNCHANGED <<grid_size, time_step, cars, intersections, road_cells,
                   config, result>>

NextCtor ==
    \/ DrawCar
    \/ DrawRaises
    \/ Return
    \/ ctor = "returned" /\ time_step < OpsTicks /\ Update

SpecCtor == InitCtor /\ [][NextCtor]_vars

\* ------------------------------------------------------------------
\* The constructor step by step on grids large enough to hold more than one
\* intersection per row, called with a valid number of cars and the default
\* cycle length.

\* Simulator(grid_size=g, num_cars=n) after the first loop.
InitLayout ==
    \E g \in 1..LayoutGrid, n \in 0..MaxCars :
        /\ n <= Cardinality(GridCells(g) \ IntersectionCells(g))
        /\ grid_size = g
        /\ time_step = 0
        /\ intersections = BuildIntersections(g, DefaultCycle)
        /\ cars = <<>>
        /\ road_cells = {}
        /\ init_cars = <<>>
        /\ prev = [cars |-> <<>>, intersections |-> BuildIntersections(g, DefaultCycle)]
        /\ config = [grid_size |-> g, num_cars |-> n, intersection_cycle |-> DefaultCycle]
        /\ ctor = "placing"
        /\ result = [op |-> "__init__", args |-> <<>>, value |-> "None"]

NextLayout ==
    \/ DrawCar
    \/ Return

SpecLayout == InitLayout /\ [][NextLayout]_vars

\* ------------------------------------------------------------------
\* The reference layout: a 10 x 10 grid with one or two cars that start on
\* the top row, and any cycle length up to the constructor's default.

RefPlacements(n) == {cs \in Placements(10, n) : \A i \in 1..n : cs[i].position[2] = 0}

InitRef ==
    \E cycle \in 1..DefaultCycle, n \in 1..2 :
        \E cs \in RefPlacements(n) : Construct(10, cycle, n, cs)

NextRef == time_step < RefTicks /\ Update

SpecRef == InitRef /\ [][NextRef]_vars

\* ------------------------------------------------------------------
\* Vocabulary of the properties, stated from the data model and not from the
\* operators above.

\* An update() has run: prev holds the state on entry to the last one.
Stepped == time_step > 0

CarIds == 1..Len(cars)

\* The unit delta of a heading: N=(0,-1), S=(0,+1), E=(+1,0), W=(-1,0).
Delta(d) ==
    IF d = "N" THEN <<0, -1>>
    ELSE IF d = "S" THEN <<0, 1>>
    ELSE IF d = "E" THEN <<1, 0>>
    ELSE <<-1, 0>>

\* The candidate cell of car record c: one cell along its heading.
Candidate(c) == <<c.position[1] + Delta(c.direction)[1],
                  c.position[2] + Delta(c.direction)[2]>>

\* The candidate of the car at index i on entry to the last update().
PreCandidate(i) == Candidate(prev.cars[i])

\* Cell p lies in [0, grid_size) x [0, grid_size).
OnGrid(p) == p[1] \in 0..(grid_size - 1) /\ p[2] \in 0..(grid_size - 1)

\* The axis that governs heading d.
Axis(d) == IF d \in {"N", "S"} THEN "NS" ELSE "EW"

\* Cell p is a control cell.
Controlled(p) == p \in DOMAIN intersections

\* Control cell p shows red to heading d in the lights ints.
RedIn(ints, p, d) == ints[p].light_state[Axis(d)] = "red"

\* The car at index i changed cell in the last update().
Moved(i) == cars[i].position # prev.cars[i].position

\* The lights of an intersection that was created without an initial state.
DefaultLights == [NS |-> "green", EW |-> "red"]

\* The other of the two light states.
Swapped(l) == [NS |-> l.EW, EW |-> l.NS]

\* ------------------------------------------------------------------
\* C1: in every state the constructor or any number of update() calls can
\* produce, no two cars are on the same cell.
C1_NoTwoCarsOnOneCell ==
    \A i, j \in CarIds : i # j => cars[i].position # cars[j].position

\* C1 witness: an update() has run in which one car's candidate was the cell
\* another car stood on, and that car is still standing there.
C1_Witness ==
    /\ Stepped
    /\ \E i, j \in CarIds :
        /\ i # j
        /\ PreCandidate(i) = prev.cars[j].position
        /\ cars[j].position = prev.cars[j].position
        /\ cars[i].position = prev.cars[i].position

\* C2: every intersection shows green on exactly one of its two axes and red on
\* the other, in every reachable state.
C2_ExactlyOneAxisGreen ==
    \A p \in DOMAIN intersections :
        LET l == intersections[p].light_state
        IN  \/ l.NS = "green" /\ l.EW = "red"
            \/ l.NS = "red" /\ l.EW = "green"

\* C2 witness: an intersection has been swapped to EW-green by update_light and
\* then swapped back.
C2_Witness ==
    \E p \in DOMAIN intersections :
        /\ intersections[p].light_state = DefaultLights
        /\ prev.intersections[p].light_state = Swapped(DefaultLights)

\* C3: an intersection starts NS-green/EW-red, and the call to update_light
\* numbered n (time_step counts the calls each intersection has had) swaps the
\* lights exactly when n is a multiple of cycle_length and otherwise leaves
\* them as they were.
C3_FlipsExactlyEveryCycle ==
    \A p \in DOMAIN intersections :
        LET now    == intersections[p].light_state
            before == prev.intersections[p].light_state
        IN  /\ time_step = 0 => now = DefaultLights
            /\ Stepped =>
                IF time_step % intersections[p].cycle_length = 0
                THEN now = Swapped(before)
                ELSE now = before

\* C3 witness: an intersection with a cycle longer than one call has had its
\* second swap, on call 2 * cycle_length.
C3_Witness ==
    \E p \in DOMAIN intersections :
        /\ intersections[p].cycle_length > 1
        /\ time_step = 2 * intersections[p].cycle_length
        /\ intersections[p].light_state = DefaultLights
        /\ prev.intersections[p].light_state = Swapped(DefaultLights)

\* C4: a car whose candidate lies outside the grid keeps its cell in that
\* update(), and it stays in the car list; every car is inside the grid in
\* every reachable state.
C4_OutOfBoundsStays ==
    /\ \A i \in CarIds : OnGrid(cars[i].position)
    /\ Len(cars) = Len(prev.cars)
    /\ Stepped =>
        \A i \in CarIds :
            ~OnGrid(PreCandidate(i)) => cars[i].position = prev.cars[i].position

\* C4 witness: a car at the far edge of the grid, heading out of it, has been
\* through an update().
C4_Witness ==
    /\ Stepped
    /\ \E i \in CarIds :
        /\ PreCandidate(i)[1] = grid_size
        /\ cars[i].position = prev.cars[i].position

\* C5: a car whose candidate is a control cell that, after this update()'s
\* advance of the lights, is red for its heading keeps its cell; so no car
\* enters a control cell in an update() in which the cell is red for it.
C5_RedLightStays ==
    Stepped =>
        \A i \in CarIds :
            /\ (/\ Controlled(PreCandidate(i))
                /\ RedIn(intersections, PreCandidate(i), prev.cars[i].direction))
               => cars[i].position = prev.cars[i].position
            /\ (Moved(i) /\ Controlled(cars[i].position))
               => ~RedIn(intersections, cars[i].position, cars[i].direction)

\* C5 witness: a car faces a control cell that is red for it and empty, and
\* has been held there by an update().
C5_Witness ==
    /\ Stepped
    /\ \E i \in CarIds :
        /\ Controlled(PreCandidate(i))
        /\ RedIn(intersections, PreCandidate(i), prev.cars[i].direction)
        /\ \A j \in CarIds : cars[j].position # PreCandidate(i)
        /\ ~Moved(i)

\* ------------------------------------------------------------------
\* The cells that hold a car at the moment the car at index i is evaluated in
\* the last update(): the cars before it in the list are where that update()
\* left them, the cars after it are where they were on entry.

\* Cell c was claimed by a car that moved earlier in the pass.
ClaimedEarlier(i, c) ==
    \E j \in CarIds : j < i /\ Moved(j) /\ cars[j].position = c

\* Cell c is the unmoved cell of a car that is evaluated after i.
HeldByLater(i, c) ==
    \E j \in CarIds : j > i /\ prev.cars[j].position = c

\* Cell c is the cell of a car that was evaluated before i and stayed.
HeldByEarlierStayed(i, c) ==
    \E j \in CarIds : j < i /\ ~Moved(j) /\ prev.cars[j].position = c

OccupiedAtEval(i, c) ==
    ClaimedEarlier(i, c) \/ HeldByLater(i, c) \/ HeldByEarlierStayed(i, c)

\* Cell c is on the grid and not a control cell that is red for heading d.
OpenFor(c, d) ==
    /\ OnGrid(c)
    /\ ~(Controlled(c) /\ RedIn(intersections, c, d))

\* The car at index i is on its old cell or on its candidate.
StayedOrOneCell(i) ==
    cars[i].position \in {prev.cars[i].position, PreCandidate(i)}

\* C6 as stated: every car ends on its old cell or one cell further along its
\* heading, and it moves if and only if the candidate is in bounds, is not a
\* control cell red for its heading, is not claimed by a car that moved earlier
\* in the pass and is not the unmoved cell of a car not yet evaluated.
C6_AsStated ==
    Stepped =>
        \A i \in CarIds :
            /\ StayedOrOneCell(i)
            /\ Moved(i) <=>
                /\ OpenFor(PreCandidate(i), prev.cars[i].direction)
                /\ ~ClaimedEarlier(i, PreCandidate(i))
                /\ ~HeldByLater(i, PreCandidate(i))

\* C6 amended: the same, with the third check refusing also the cell of a car
\* that was evaluated earlier in the pass and stayed: a car moves if and only
\* if the candidate is in bounds, not red for it, and holds no car at the
\* moment it is evaluated.
C6_MovesIffAllChecksPass ==
    Stepped =>
        \A i \in CarIds :
            /\ StayedOrOneCell(i)
            /\ Moved(i) <=>
                /\ OpenFor(PreCandidate(i), prev.cars[i].direction)
                /\ ~OccupiedAtEval(i, PreCandidate(i))

\* C6 witness: in an update() a car's candidate passed the bounds and signal
\* checks, was neither claimed in the pass nor held by a later car, but was
\* the cell of a car evaluated earlier that stayed; the car has not moved.
C6_Witness ==
    /\ Stepped
    /\ \E i \in CarIds :
        /\ OpenFor(PreCandidate(i), prev.cars[i].direction)
        /\ HeldByEarlierStayed(i, PreCandidate(i))
        /\ ~ClaimedEarlier(i, PreCandidate(i))
        /\ ~HeldByLater(i, PreCandidate(i))
        /\ ~Moved(i)

\* ------------------------------------------------------------------
\* The scenario of C7 on the reference layout: A (id 0) at (2,0) heading East,
\* B (id 1) at (4,0) heading West.
C7_Scenario ==
    /\ grid_size = 10
    /\ init_cars = <<[id |-> 0, position |-> <<2, 0>>, direction |-> "E"],
                     [id |-> 1, position |-> <<4, 0>>, direction |-> "W"]>>

\* C7 as stated, with the constructor's default cycle length: after one
\* update() A is at (3,0) and B is still at (4,0).
C7_AsStated ==
    (/\ C7_Scenario
     /\ intersections[<<3, 0>>].cycle_length = DefaultCycle
     /\ time_step = 1)
    => /\ cars[1].position = <<3, 0>>
       /\ cars[2].position = <<4, 0>>

\* C7 amended: after one update() B is still at (4,0); A is at (3,0) only when
\* the cycle length is 1, so that this update() turned (3,0) EW-green; for
\* every longer cycle, the default included, (3,0) is red for East and A is
\* still at (2,0).
C7_HeldByRedLight ==
    (C7_Scenario /\ time_step = 1)
    => /\ cars[2].position = <<4, 0>>
       /\ IF intersections[<<3, 0>>].cycle_length = 1
          THEN cars[1].position = <<3, 0>>
          ELSE cars[1].position = <<2, 0>>

\* C7 witness: the scenario after one update() with the default cycle length,
\* both cars on their starting cells.
C7_Witness ==
    /\ C7_Scenario
    /\ time_step = 1
    /\ intersections[<<3, 0>>].cycle_length = DefaultCycle
    /\ cars[1].position = <<2, 0>>
    /\ cars[2].position = <<4, 0>>

\* The scenario of C8: a 10 x 10 grid, cycle length 5, one car at (1,0)
\* heading East.
C8_Scenario ==
    /\ grid_size = 10
    /\ \A p \in DOMAIN intersections : intersections[p].cycle_length = 5
    /\ init_cars = <<[id |-> 0, position |-> <<1, 0>>, direction |-> "E"]>>

\* C8 as stated: the car advances one cell in x on each of the first three
\* update() calls and is at (4,0) after the third.
C8_AsStated ==
    (C8_Scenario /\ time_step \in 1..3)
    => cars[1].position = <<1 + time_step, 0>>

\* C8 amended: the car advances one cell on the first update() only; (3,0) is
\* a control cell, red for East until its first swap on the fifth update(), so
\* the car is at (2,0) after 3 ticks and enters (3,0) on the fifth.
C8_HeldAtFirstLight ==
    C8_Scenario
    => /\ time_step \in 1..4 => cars[1].position = <<2, 0>>
       /\ time_step = 5 => cars[1].position = <<3, 0>>

\* C8 witness: the scenario after three update() calls, the car at (2,0).
C8_Witness ==
    /\ C8_Scenario
    /\ time_step = 3
    /\ cars[1].position = <<2, 0>>

\* ------------------------------------------------------------------
\* The last update() swapped the lights of control cell c.
Flipped(c) ==
    intersections[c].light_state # prev.intersections[c].light_state

\* C9: the lights are advanced before any car is evaluated: in an update()
\* that swaps the lights of a car's candidate control cell, the car is gated
\* by the lights after the swap: it moves if and only if the cell is green
\* for it after the swap and holds no car when it is evaluated.
C9_GatedByAdvancedLights ==
    Stepped =>
        \A i \in CarIds :
            LET c == PreCandidate(i)
            IN  (Controlled(c) /\ Flipped(c))
                => (Moved(i) <=>
                        /\ ~RedIn(intersections, c, prev.cars[i].direction)
                        /\ ~OccupiedAtEval(i, c))

\* C9 witness: a car has entered a control cell in the update() that turned
\* the cell from red to green for it.
C9_Witness ==
    /\ Stepped
    /\ \E i \in CarIds :
        /\ Controlled(PreCandidate(i))
        /\ Flipped(PreCandidate(i))
        /\ RedIn(prev.intersections, PreCandidate(i), prev.cars[i].direction)
        /\ Moved(i)
        /\ cars[i].position = PreCandidate(i)

C11_TimeStepCountsUpdates ==
    /\ [](result.op = "__init__" => time_step = 0)
    /\ [][/\ result'.op = "update" => time_step' = time_step + 1
          /\ result'.op \in {"get_state", "find_path"} => time_step' = time_step]_vars

\* C11 witness: update() has run OpsTicks times, time_step says so, and a
\* find_path() call has been made since.
C11_Witness ==
    /\ time_step = OpsTicks
    /\ OpsTicks > 1
    /\ result.op = "find_path"

\* The entry get_state() is to report for car record c.
CarEntry(c) == [id |-> c.id, position |-> c.position, direction |-> c.direction]

\* The entry get_state() is to report for intersection record x.
LightEntry(x) ==
    [position |-> x.position, NS |-> x.light_state.NS, EW |-> x.light_state.EW]

\* View v reports time step t, the cars cs, one entry each and in order, and
\* the intersections ints, one entry each.
Reports(v, t, cs, ints) ==
    /\ v.time_step = t
    /\ Len(v.cars) = Len(cs)
    /\ \A i \in 1..Len(cs) : v.cars[i] = CarEntry(cs[i])
    /\ Len(v.intersections) = Cardinality(DOMAIN ints)
    /\ \A p \in DOMAIN ints :
        \E k \in 1..Len(v.intersections) : v.intersections[k] = LightEntry(ints[p])

\* C12: get_state() is a read-only query: a call leaves time_step, the cars,
\* the intersections (lights and timers) and the grid size as they were, and
\* returns the current time_step with one (id, position, direction) entry per
\* car and one (position, NS, EW) entry per intersection.
C12_GetStateReadOnly ==
    [][result'.op = "get_state" =>
          /\ UNCHANGED <<grid_size, time_step, cars, intersections, road_cells>>
          /\ Reports(result'.value, time_step, cars, intersections)]_vars

\* C12 witness: get_state() has been called between two update() calls on a
\* simulator with two cars and has returned the time step of that moment.
C12_Witness ==
    /\ result.op = "get_state"
    /\ time_step = 1
    /\ Len(cars) = 2
    /\ result.value.time_step = 1
    /\ Len(result.value.cars) = 2

\* The number of road steps from a to b (b reachable from a over roads).
RECURSIVE RoadDistance(_, _, _, _)
RoadDistance(roads, near, b, n) ==
    IF b \in near \/ n >= Cardinality(roads) THEN n
    ELSE RoadDistance(roads, Within(roads, near, 1), b, n + 1)

\* path leads from a to b over cardinal-adjacent road cells and is as short as
\* any such sequence.
ShortestRoadPath(path, roads, a, b) ==
    /\ Len(path) >= 1
    /\ path[1] = a
    /\ path[Len(path)] = b
    /\ \A k \in 1..Len(path) : path[k] \in roads
    /\ \A k \in 1..(Len(path) - 1) : path[k + 1] \in Adjacent(path[k])
    /\ Len(path) = RoadDistance(roads, {a}, b, 0) + 1

\* C13: on a connected road network, find_path(a, b) for road cells a and b
\* returns a sequence from a to b over cardinal-adjacent road cells of minimal
\* length; find_path(a, a) returns the one-element sequence of a.
C13_FindPathShortest ==
    (/\ result.op = "find_path"
     /\ Connected(road_cells)
     /\ result.args[1] \in road_cells
     /\ result.args[2] \in road_cells)
    => /\ ShortestRoadPath(result.value, road_cells, result.args[1], result.args[2])
       /\ result.args[1] = result.args[2] => result.value = <<result.args[1]>>

\* The cells of the grid whose two coordinates are multiples of 3.
LatticeCells == {p \in (0..(grid_size - 1)) \X (0..(grid_size - 1)) :
                    p[1] % 3 = 0 /\ p[2] % 3 = 0}

\* C14: the constructor puts exactly one Intersection on each cell of the grid
\* whose x and y are both multiples of 3 and none elsewhere, and places
\* exactly num_cars cars, with ids 0..num_cars-1, each inside the grid, off
\* every intersection cell, on pairwise distinct cells, heading N, S, E or W.
C14_InitialLayout ==
    ctor = "returned" =>
      /\ DOMAIN intersections = LatticeCells
      /\ \A p \in DOMAIN intersections : intersections[p].position = p
      /\ Len(init_cars) = config.num_cars
      /\ \A i \in 1..Len(init_cars) :
          /\ init_cars[i].id = i - 1
          /\ OnGrid(init_cars[i].position)
          /\ init_cars[i].position \notin LatticeCells
          /\ init_cars[i].direction \in {"N", "S", "E", "W"}
          /\ \A j \in 1..Len(init_cars) :
              i # j => init_cars[i].position # init_cars[j].position
      /\ time_step = 0 => cars = init_cars

\* C14 witness: the constructor has returned a simulator on a grid with the
\* four intersections (0,0), (0,3), (3,0) and (3,3) and two cars, one of them
\* on a cell between two intersections.
C14_Witness ==
    /\ ctor = "returned"
    /\ time_step = 0
    /\ DOMAIN intersections = {<<0, 0>>, <<0, 3>>, <<3, 0>>, <<3, 3>>}
    /\ config.num_cars = 2
    /\ Len(cars) = 2
    /\ \E i \in 1..Len(cars) : cars[i].position = <<0, 2>>

\* The constructor's arguments are not a valid configuration: grid size or
\* cycle length not positive, or more cars than non-intersection cells.
InvalidConfig ==
    \/ config.grid_size <= 0
    \/ config.intersection_cycle <= 0
    \/ config.num_cars > config.grid_size * config.grid_size
                          - Cardinality(DOMAIN intersections)

\* C15: a constructor call with a non-positive grid size, a non-positive cycle
\* length or more cars than free cells fails with InvalidConfiguration: it
\* never returns a simulator and ends with no other error.
C15_InvalidConfigurationFails ==
    InvalidConfig => ctor \in {"placing", "InvalidConfiguration"}

\* ------------------------------------------------------------------
\* C16: the timer of every intersection with cycle_length >= 1 is an integer
\* in [0, cycle_length) in every state between update_light() calls: it is 0
\* at construction, it is 0 after exactly the calls that swap the lights, and
\* it is one more than before after every other call.
C16_TimerInCycle ==
    \A p \in DOMAIN intersections :
        LET x == intersections[p]
            o == prev.intersections[p]
        IN  x.cycle_length >= 1 =>
              /\ x.timer \in 0..(x.cycle_length - 1)
              /\ time_step = 0 => x.timer = 0
              /\ Stepped =>
                   \/ x.light_state = Swapped(o.light_state) /\ x.timer = 0
                   \/ x.light_state = o.light_state /\ x.timer = o.timer + 1

\* C16 witness: an intersection of cycle length 2 whose timer counted to 1 and
\* was set back to 0 by the call that swapped its lights.
C16_Witness ==
    /\ Stepped
    /\ \E p \in DOMAIN intersections :
        /\ intersections[p].cycle_length = 2
        /\ prev.intersections[p].timer = 1
        /\ intersections[p].timer = 0
        /\ intersections[p].light_state = Swapped(prev.intersections[p].light_state)

\* C17: update() changes only car positions, the intersections' timers and
\* lights, and time_step: after any number of update() calls every car has the
\* id and the direction it was built with, the number of cars, the set of
\* intersection cells, every intersection's cycle_length and grid_size are
\* what they were at construction, and the same as before the last call.
C17_UpdateFrame ==
    /\ grid_size = config.grid_size
    /\ Len(cars) = Len(init_cars)
    /\ Len(cars) = Len(prev.cars)
    /\ \A i \in 1..Len(init_cars) :
        /\ cars[i].id = init_cars[i].id
        /\ cars[i].direction = init_cars[i].direction
        /\ cars[i].id = prev.cars[i].id
        /\ cars[i].direction = prev.cars[i].direction
    /\ DOMAIN intersections = DOMAIN prev.intersections
    /\ DOMAIN intersections = LatticeCells
    /\ \A p \in DOMAIN intersections :
        /\ intersections[p].position = p
        /\ intersections[p].cycle_length = config.intersection_cycle
        /\ intersections[p].cycle_length = prev.intersections[p].cycle_length

\* C17 witness: after two update() calls, the last of which moved a car and
\* changed an intersection.
C17_Witness ==
    /\ time_step >= 2
    /\ \E i \in CarIds : Moved(i)
    /\ \E p \in DOMAIN intersections : intersections[p] # prev.intersections[p]

\* The number of cells the car at index i is away from where it was built,
\* counted along its heading.
Advance(i) ==
    (cars[i].position[1] - init_cars[i].position[1]) * Delta(init_cars[i].direction)[1]
    + (cars[i].position[2] - init_cars[i].position[2]) * Delta(init_cars[i].direction)[2]

\* C19 (quiescence): every update() leaves a car where it was or one cell
\* further along its unchanged heading, so the cells it has advanced count its
\* moves; that count never exceeds grid_size - 1, which leaves only finitely
\* many updates in which any car moves; and a car whose candidate is out of
\* bounds does not move and still has an out-of-bounds candidate afterwards,
\* so it is stationary in every later update.
C19_MovesBounded ==
    \A i \in CarIds :
        /\ Advance(i) \in 0..(grid_size - 1)
        /\ cars[i].position =
             <<init_cars[i].position[1] + Advance(i) * Delta(init_cars[i].direction)[1],
               init_cars[i].position[2] + Advance(i) * Delta(init_cars[i].direction)[2]>>
        /\ Stepped =>
             /\ StayedOrOneCell(i)
             /\ ~OnGrid(PreCandidate(i)) =>
                  ~Moved(i) /\ ~OnGrid(Candidate(cars[i]))

\* C19 witness: a car that has moved grid_size - 1 times, across the whole
\* grid, and stood still in the last update() with its candidate off the grid.
C19_Witness ==
    /\ Stepped
    /\ grid_size >= 2
    /\ \E i \in CarIds :
        /\ Advance(i) = grid_size - 1
        /\ ~OnGrid(PreCandidate(i))
        /\ ~Moved(i)

\* Cars i and j stood on adjacent cells, each on the other's candidate.
Facing(i, j) ==
    /\ prev.cars[j].position = PreCandidate(i)
    /\ prev.cars[i].position = PreCandidate(j)

\* C20 (order dependence of the collision check): a car never moves into a
\* cell that holds another car when it is evaluated. So a car i whose
\* candidate was held on entry by a later car j stays, even when j moves away
\* in the same update(); a car i whose candidate was held on entry by an
\* earlier car j that has moved out moves in, provided the cell is unclaimed,
\* in bounds and not red for i; and two cars facing each other on adjacent
\* cells never swap cells.
C20_OrderDependence ==
    Stepped =>
      \A i \in CarIds :
        /\ Moved(i) => ~OccupiedAtEval(i, cars[i].position)
        /\ \A j \in CarIds :
            /\ (j > i /\ prev.cars[j].position = PreCandidate(i)) => ~Moved(i)
            /\ (/\ j < i
                /\ prev.cars[j].position = PreCandidate(i)
                /\ Moved(j)
                /\ ~ClaimedEarlier(i, PreCandidate(i))
                /\ OpenFor(PreCandidate(i), prev.cars[i].direction)) => Moved(i)
            /\ (i # j /\ Facing(i, j)) =>
                 ~(/\ cars[i].position = prev.cars[j].position
                   /\ cars[j].position = prev.cars[i].position)

\* C20 witness: car i stayed although the later car j, which held i's
\* candidate on entry, moved away in the same update().
C20_Witness ==
    /\ Stepped
    /\ \E i, j \in CarIds :
        /\ i < j
        /\ prev.cars[j].position = PreCandidate(i)
        /\ Moved(j)
        /\ ~Moved(i)
        /\ OpenFor(PreCandidate(i), prev.cars[i].direction)

====
